---- MODULE Spec2Model ----
(***************************************************************************)
(* Model of the contribution tracker's data-acquisition pipeline:          *)
(*   - get_all_pages        (src/generate_report.py:36-91), the paged,     *)
(*     retrying fetcher, stepped one HTTP request at a time;               *)
(*   - generate_report / process_github_data                               *)
(*     (src/generate_report.py:224-314, 621-686), the collector that       *)
(*     drives the fetcher.                                                  *)
(*                                                                         *)
(* Python values are tagged with their type: a list is                     *)
(* [type |-> "list", items |-> <<...>>], a dict is                         *)
(* [type |-> "dict", keys |-> present keys, val |-> record of values].     *)
(* Durations are in tenths of a second.                                    *)
(***************************************************************************)
EXTENDS Integers, Sequences, FiniteSets, TLC

VARIABLES
    url,              \* endpoint kind of the running get_all_pages call
    with_pagination,  \* its with_pagination argument
    params,           \* its params dict: [page, per_page], 0 = key absent
    page,             \* local variable page
    attempt,          \* loop variable of "for attempt in range(max_retries)"
    results,          \* local variable results
    fpc,              \* position of the call: idle, top, req, wait, ret, raised
    ret,              \* value returned by the call
    source,           \* the remote collection or object behind the endpoint
    log,              \* history of the call: requests, responses, sleeps
    httpIssued,       \* TRUE once any HTTP request has been issued
    conf,             \* github_conf_data, the configuration read by generate_report
    gpc,              \* position of generate_report
    start_date,       \* generate_report: start_date
    users,            \* generate_report: users
    project_to_repo_dict, \* generate_report: project_to_repo_dict, in key order
    di,               \* index of the user whose repositories are being discovered
    cpc,              \* position of process_github_data
    ui,               \* index of the current user in users
    ri,               \* index of the current (project, repository) of the nested loops
    user_info_dict,   \* process_github_data: user_info_dict
    repo_info_dict,   \* process_github_data: repo_info_dict
    top_contributors_in_users, \* process_github_data: top_contributors_in_users
    user_prs_dict,    \* process_github_data: user_prs_dict
    github_data,      \* process_github_data: github_data
    emitted,          \* history: the (project, repository, user) of each record
    collected,        \* value returned by process_github_data
    error,            \* the exception generate_report ended with, or "none"
    reportWritten,    \* TRUE once create_markdown_report has written the report
    dumpWritten,      \* TRUE once the contribution data has been dumped
    prs,              \* process_github_data: prs, the open pull requests of the repository
    commits,          \* process_github_data: commits, the last answer of get_commits
    discovered,       \* history of the discovery loop: the repositories found, per user
    percentage,       \* the percentage argument of the entry point
    github_data_df,   \* the table handed to process_data_and_create_report
    filtered_df,      \* process_data: the filtered table
    projects_df,      \* process_data: the project rollup
    users_df,         \* process_data: the user rollup
    project_chart,    \* create_pie_chart: value_counts and total of the project chart
    user_chart,       \* create_pie_chart: value_counts and total of the user chart
    dump,             \* the contents of github_contribution_data.csv, or NoValue
    lpc               \* position of generate_report_with_local_data

fetchVars == <<url, with_pagination, params, page, attempt, results, fpc, ret,
               source, log, httpIssued>>

aggVars == <<percentage, github_data_df, filtered_df, projects_df, users_df,
             project_chart, user_chart, dump, lpc>>

reportVars == <<conf, gpc, start_date, users, project_to_repo_dict, di, cpc, ui, ri,
                user_info_dict, repo_info_dict, top_contributors_in_users,
                user_prs_dict, github_data, emitted, prs, commits, discovered,
                aggVars, collected, error,
                reportWritten, dumpWritten>>

vars == <<fetchVars, reportVars>>

----------------------------------------------------------------------------
(* Program constants *)

MaxRetries == 3
BackoffTenths == 3
PaceTenths == 10
PerPage == 100

(* Bounds of the model *)

MaxFullPages == 2

----------------------------------------------------------------------------
(* Python values *)

NoValue == [type |-> "none"]

PyList(s) == [type |-> "list", items |-> s]

PyDict(ks, v) == [type |-> "dict", keys |-> ks, val |-> v]

\* A truthiness test that takes every decoded body for non-empty
FalsyNever(data) == FALSE

\* "not data" of Python: an empty list and an empty dict are both falsy
Falsy(data) ==
    IF data.type = "list" THEN data.items = <<>> ELSE data.keys = {}

\* dict.get(key, default)
DictGet(d, key, default) ==
    IF key \in d.keys THEN d.val[key] ELSE default

Min(a, b) == IF a < b THEN a ELSE b

RECURSIVE Pow2(_)
Pow2(n) == IF n = 0 THEN 1 ELSE 2 * Pow2(n - 1)

----------------------------------------------------------------------------
(* The remote API *)

SearchUrl == "search/issues"

ListUrls == {"contributors", "commits", "pulls"}

ObjectUrls == {"users", "repos"}

\* One page of a remote collection: items (page-1)*per_page+1 .. page*per_page
PageItems(src, prm) ==
    LET lo == (prm.page - 1) * prm.per_page + 1
        hi == Min(Len(src.items), prm.page * prm.per_page)
    IN  IF lo > hi THEN <<>> ELSE SubSeq(src.items, lo, hi)

\* The decoded body of a successful response (response.json())
RemoteResponse(u, src, prm) ==
    IF u \in ObjectUrls THEN src.obj
    ELSE IF u = SearchUrl
         THEN PyDict({"total_count", "items"},
                     [total_count |-> Len(src.items), items |-> PageItems(src, prm)])
         ELSE PyList(PageItems(src, prm))

----------------------------------------------------------------------------
(* get_all_pages *)

Event(e, a) == [ev |-> e, page |-> params.page, arg |-> a]

\* results = []; page = 1, and entry into the while loop
StartFetch(u, wp, prm, src) ==
    /\ url' = u
    /\ with_pagination' = wp
    /\ params' = prm
    /\ source' = src
    /\ page' = 1
    /\ attempt' = 0
    /\ results' = <<>>
    /\ ret' = NoValue
    /\ log' = <<>>
    /\ fpc' = "top"

\* while True: if with_pagination: params['page'] = page; for attempt in ...
WhileTop ==
    /\ fpc = "top"
    /\ params' = IF with_pagination THEN [params EXCEPT !.page = page] ELSE params
    /\ attempt' = 0
    /\ fpc' = "req"
    /\ UNCHANGED <<url, with_pagination, page, results, ret, source, log, httpIssued>>
    /\ UNCHANGED reportVars

\* requests.get(url, headers=HEADERS, params=params, ...)
SendRequest ==
    /\ fpc = "req"
    /\ log' = Append(log, Event("req", 0))
    /\ httpIssued' = TRUE
    /\ fpc' = "wait"
    /\ UNCHANGED <<url, with_pagination, params, page, attempt, results, ret, source>>
    /\ UNCHANGED reportVars

\* Assignment in place of extension: the earlier pages are dropped
ExtendOverwrites(res, items) == items

\* results.extend(items)
Extend(res, items) == res \o items

\* len(items) > 0 and total_count > page * per_page: the search has more pages
MoreSearchPages(items, total_count, pg, per_page) ==
    Len(items) > 0 /\ total_count > pg * per_page

\* The try body after a successful request
ResponseOK ==
    /\ fpc = "wait"
    /\ LET data == RemoteResponse(url, source, params)
       IN  /\ log' = Append(log, Event("ok", 0))
           /\ IF Falsy(data)
              THEN \* return results
                   /\ ret' = PyList(results)
                   /\ fpc' = "ret"
                   /\ UNCHANGED <<results, page, attempt>>
              ELSE IF with_pagination
              THEN IF url = SearchUrl
                   THEN LET total_count == DictGet(data, "total_count", 0)
                            items == DictGet(data, "items", <<>>)
                        IN  /\ results' = Extend(results, items)
                            /\ IF MoreSearchPages(items, total_count, page, params.per_page)
                               THEN \* page += 1; continue (next iteration of the for loop)
                                    /\ page' = page + 1
                                    /\ attempt' = attempt + 1
                                    /\ fpc' = IF attempt + 1 < MaxRetries THEN "req" ELSE "top"
                                    /\ ret' = ret
                               ELSE \* return results
                                    /\ ret' = PyList(Extend(results, items))
                                    /\ fpc' = "ret"
                                    /\ UNCHANGED <<page, attempt>>
                   ELSE \* results.extend(data); page += 1; break
                        /\ results' = Extend(results, data.items)
                        /\ page' = page + 1
                        /\ fpc' = "top"
                        /\ UNCHANGED <<attempt, ret>>
              ELSE \* return data
                   /\ ret' = data
                   /\ fpc' = "ret"
                   /\ UNCHANGED <<results, page, attempt>>
    /\ UNCHANGED <<url, with_pagination, params, source, httpIssued>>
    /\ UNCHANGED reportVars

\* The retry test off by one: the last failed attempt sleeps instead of raising
ShouldRetryOffByOne(a) == a < MaxRetries

\* if attempt < max_retries - 1: sleep and retry, else raise
ShouldRetry(a) == a < MaxRetries - 1

\* except requests.exceptions.RequestException, and the pacing sleep after it
ResponseError ==
    /\ fpc = "wait"
    /\ IF ShouldRetry(attempt)
       THEN /\ log' = log \o <<Event("err", 0),
                               Event("backoff", BackoffTenths * Pow2(attempt)),
                               Event("pace", PaceTenths)>>
            /\ attempt' = attempt + 1
            /\ fpc' = IF attempt + 1 < MaxRetries THEN "req" ELSE "top"
       ELSE /\ log' = Append(log, Event("err", 0))
            /\ fpc' = "raised"
            /\ UNCHANGED attempt
    /\ UNCHANGED <<url, with_pagination, params, page, results, ret, source, httpIssued>>
    /\ UNCHANGED reportVars

----------------------------------------------------------------------------
(* Specification of one get_all_pages call, as its callers make it *)

\* Remote collections of 0 .. MaxFullPages full pages plus a remainder
Remainders == {0, 1, 37}

CollectionSizes == {k * PerPage + r : k \in 0 .. MaxFullPages, r \in Remainders}

Collection(n) == [items |-> [i \in 1 .. n |-> i]]

\* get_top_contributors: "Retrieve top 500 contributors for a repository"
ContributorCap == 500

\* Sizes of the contributor list of a large repository: the announced number
\* of contributors, and one more
ContributorSizes == {ContributorCap, ContributorCap + 1}

\* Remote single objects: an empty object and a populated one
Objects == {PyDict({}, [name |-> "n"]), PyDict({"name"}, [name |-> "n"])}

\* generate_report is not running
ReportIdle ==
    /\ conf = [start_date |-> <<>>, users |-> <<>>, projects |-> <<>>]
    /\ gpc = "idle"
    /\ start_date = <<>>
    /\ users = <<>>
    /\ project_to_repo_dict = <<>>
    /\ di = 1
    /\ cpc = "idle"
    /\ ui = 1
    /\ ri = 1
    /\ user_info_dict = <<>>
    /\ repo_info_dict = <<>>
    /\ top_contributors_in_users = <<>>
    /\ user_prs_dict = <<>>
    /\ github_data = <<>>
    /\ emitted = <<>>
    /\ prs = <<>>
    /\ commits = <<>>
    /\ discovered = <<>>
    /\ percentage = -1
    /\ github_data_df = NoValue
    /\ filtered_df = NoValue
    /\ projects_df = NoValue
    /\ users_df = NoValue
    /\ project_chart = NoValue
    /\ user_chart = NoValue
    /\ dump = NoValue
    /\ lpc = "idle"
    /\ collected = NoValue
    /\ error = "none"
    /\ reportWritten = FALSE
    /\ dumpWritten = FALSE

Init ==
    /\ ReportIdle
    /\ httpIssued = FALSE
    /\ page = 1
    /\ attempt = 0
    /\ results = <<>>
    /\ ret = NoValue
    /\ log = <<>>
    /\ fpc = "top"
    /\ \/ /\ url \in ListUrls \cup {SearchUrl}
          /\ with_pagination = TRUE
          /\ params = [page |-> 0, per_page |-> PerPage]
          /\ \E n \in CollectionSizes : source = Collection(n)
       \/ /\ url = "contributors"
          /\ with_pagination = TRUE
          /\ params = [page |-> 0, per_page |-> PerPage]
          /\ \E n \in ContributorSizes : source = Collection(n)
       \/ /\ url \in ObjectUrls
          /\ with_pagination = FALSE
          /\ params = [page |-> 0, per_page |-> 0]
          /\ \E o \in Objects : source = [obj |-> o]

Next == WhileTop \/ SendRequest \/ ResponseOK \/ ResponseError

Spec == Init /\ [][Next]_vars

----------------------------------------------------------------------------
(* Reading the history of a call *)

\* Number of events of kind e logged for page parameter p
EvCount(e, p) == Cardinality({i \in DOMAIN log : log[i].ev = e /\ log[i].page = p})

LogPages == {log[i].page : i \in DOMAIN log}

\* The responses ("ok" / "err") received for page parameter p, in order
Responses(p) ==
    LET IsResponse(x) == x.page = p /\ x.ev \in {"ok", "err"}
        Kind(x) == x.ev
        sel == SelectSeq(log, IsResponse)
    IN  [i \in DOMAIN sel |-> Kind(sel[i])]

IsPrefix(s, t) == Len(s) <= Len(t) /\ SubSeq(t, 1, Len(s)) = s

IsSuffix(s, t) == Len(s) <= Len(t) /\ SubSeq(t, Len(t) - Len(s) + 1, Len(t)) = s

\* Positions of the HTTP requests in the log
ReqPositions == {i \in DOMAIN log : log[i].ev = "req"}

\* The first page of the remote collection that carries no record
FirstEmptyPage ==
    CHOOSE p \in 1 .. Len(source.items) + 1 :
        /\ PageItems(source, [page |-> p, per_page |-> PerPage]) = <<>>
        /\ \A q \in 1 .. p - 1 : PageItems(source, [page |-> q, per_page |-> PerPage]) # <<>>

\* The records of pages 1 .. k of the remote collection, page after page
RECURSIVE ConcatPages(_)
ConcatPages(k) ==
    IF k = 0 THEN <<>>
    ELSE ConcatPages(k - 1) \o PageItems(source, [page |-> k, per_page |-> PerPage])

NoDuplicates(s) == \A i, j \in DOMAIN s : i # j => s[i] # s[j]

----------------------------------------------------------------------------
(* Claims about get_all_pages, checked under Spec *)

\* C1: every page is requested at most max_retries times; a page that fails
\* max_retries times in a row raises and no further request follows; a page
\* that fails twice and then succeeds has had exactly two backoff sleeps and
\* its payload is delivered (appended to results, or returned as the object).
C1_RetryCeiling ==
    /\ \A p \in LogPages :
          /\ EvCount("req", p) <= MaxRetries
          /\ EvCount("err", p) = MaxRetries => fpc = "raised" /\ log[Len(log)].ev = "err"
          /\ IsPrefix(<<"err", "err", "ok">>, Responses(p)) => EvCount("backoff", p) = 2
    /\ (Len(log) > 0 /\ log[Len(log)].ev = "ok") =>
          LET data == RemoteResponse(url, source,
                                     [params EXCEPT !.page = log[Len(log)].page])
          IN  IF Falsy(data) THEN fpc = "ret"
              ELSE IF with_pagination
                   THEN IsSuffix(IF url = SearchUrl THEN data.val.items ELSE data.items,
                                 results)
                   ELSE fpc = "ret" /\ ret = data

\* C1 witness: page 1 failed twice and then succeeded after two backoff
\* sleeps, and page 2 failed three times and raised
C1_Witness ==
    /\ fpc = "raised"
    /\ Responses(1) = <<"err", "err", "ok">>
    /\ EvCount("backoff", 1) = 2
    /\ Responses(2) = <<"err", "err", "err">>
    /\ EvCount("req", 2) = MaxRetries

\* C2: between any two consecutive HTTP requests of one call there is at
\* least one pacing sleep (every successful request is followed by one).
C2_PacedRequests ==
    \A i, j \in ReqPositions :
        i < j => \E k \in i + 1 .. j - 1 : log[k].ev = "pace"

\* C3: a page-number fetch requests pages 1, 2, 3, ... in increasing order,
\* holds the records of the pages before the current one in request order,
\* stops at the first empty page and returns the concatenation of the
\* earlier pages.
C3_PageNumberFetch ==
    url \in ListUrls =>
        /\ \A i \in ReqPositions :
              /\ (\A j \in ReqPositions : j >= i) => log[i].page = 1
              /\ \A j \in ReqPositions :
                    (i < j /\ \A k \in ReqPositions : ~(i < k /\ k < j)) =>
                        log[j].page \in {log[i].page, log[i].page + 1}
        /\ results = ConcatPages(page - 1)
        /\ fpc = "ret" =>
              /\ params.page = FirstEmptyPage
              /\ ret = PyList(ConcatPages(FirstEmptyPage - 1))

\* C3 witness: a fetch over three record-carrying pages has returned
C3_Witness ==
    /\ url \in ListUrls
    /\ fpc = "ret"
    /\ page = 4
    /\ Len(ret.items) = 2 * PerPage + 37

\* The page the total-count-driven fetch is to stop at: the first page with
\* page * per_page >= total_count or with an empty items array
LastSearchPage ==
    CHOOSE k \in 1 .. Len(source.items) + 1 :
        LET Stop(q) == \/ q * PerPage >= Len(source.items)
                       \/ PageItems(source, [page |-> q, per_page |-> PerPage]) = <<>>
        IN  Stop(k) /\ \A q \in 1 .. k - 1 : ~Stop(q)

\* C4: a total-count-driven fetch requests pages 1 .. k, each successful page
\* exactly once, and returns the items of pages 1 .. k in arrival order.
C4_SearchFetch ==
    url = SearchUrl =>
        /\ \A p \in LogPages : p \in 1 .. LastSearchPage /\ EvCount("ok", p) <= 1
        /\ fpc = "ret" =>
              /\ \A p \in 1 .. LastSearchPage : EvCount("ok", p) = 1
              /\ ret = PyList(ConcatPages(LastSearchPage))

\* C5: in either pagination mode the records of one remote page are appended
\* to the accumulated result at most once.
C5_NoPageTwice ==
    with_pagination => NoDuplicates(results)

\* C6 as claimed: a page-number fetch issues no request beyond the last
\* non-empty page and returns all the records in page order.
C6_NoRequestPastLastPage ==
    (url \in ListUrls /\ Len(source.items) > 0) =>
        /\ \A i \in ReqPositions : log[i].page <= FirstEmptyPage - 1
        /\ fpc = "ret" => ret = PyList(source.items)

\* C6 as amended: a page-number fetch issues no request beyond the first
\* empty page, requests that page before it returns, and returns all the
\* records in page order (237 records for pages of 100, 100 and 37).
C6_StopsAtFirstEmptyPage ==
    url \in ListUrls =>
        /\ \A i \in ReqPositions : log[i].page <= FirstEmptyPage
        /\ fpc = "ret" =>
              /\ EvCount("ok", FirstEmptyPage) = 1
              /\ ret = PyList(source.items)
              /\ Len(source.items) = 2 * PerPage + 37 =>
                    (Len(ret.items) = 237 /\ EvCount("req", 4) >= 1 /\ EvCount("req", 5) = 0)

\* C6 witness: the fetch over pages of 100, 100 and 37 records has requested
\* page 4 and returned 237 records
C6_Witness ==
    /\ url \in ListUrls
    /\ Len(source.items) = 2 * PerPage + 37
    /\ fpc = "ret"
    /\ EvCount("req", 4) = 1
    /\ Len(ret.items) = 237

\* C7: the no-pagination variant sets no page parameter, issues exactly one
\* request when that request succeeds, and returns the decoded object itself
\* for every decoded object, an empty one included.
C7_NoPaginationReturnsObject ==
    url \in ObjectUrls =>
        /\ params.page = 0
        /\ \A i \in DOMAIN log : log[i].page = 0
        /\ fpc = "ret" =>
              /\ ret = source.obj
              /\ (log[2].ev = "ok" => EvCount("req", 0) = 1)

----------------------------------------------------------------------------
(* Text: a string is a sequence of tokens (characters where the program   *)
(* looks inside it); None and the empty string are the empty sequence.    *)

PyNone == <<>>

LowerChar(c) == CASE c = "A" -> "a" [] c = "B" -> "b" [] OTHER -> c

\* str.lower()
Lower(s) == [i \in DOMAIN s |-> LowerChar(s[i])]

\* str.strip()
RECURSIVE Strip(_)
Strip(s) ==
    IF s = <<>> THEN s
    ELSE IF Head(s) = " " THEN Strip(Tail(s))
    ELSE IF s[Len(s)] = " " THEN Strip(SubSeq(s, 1, Len(s) - 1))
    ELSE s

\* A normalisation that folds the case but keeps the surrounding blanks
LowerOnly(u) == Lower(u)

\* str(user).lower().strip()
Normalize(u) == Strip(Lower(u))

\* a < b in the lexicographic order of Python strings
RECURSIVE LexLess(_, _)
LexLess(a, b) ==
    IF b = <<>> THEN FALSE
    ELSE IF a = <<>> THEN TRUE
    ELSE IF Head(a) # Head(b) THEN Head(a) < Head(b)
    ELSE LexLess(Tail(a), Tail(b))

Range(s) == {s[i] : i \in DOMAIN s}

\* The orders in which list(set) may enumerate a set
ListsOfSet(S) == {s \in [1 .. Cardinality(S) -> S] : Range(s) = S}

----------------------------------------------------------------------------
(* The configuration and the remote data of a run of generate_report *)

MaxCommits == 3

UserA == <<"a">>
UserACap == <<"A", " ">>
UserB == <<"b">>

Repo1 == <<"o", "r1">>
Repo2 == <<"o", "r2">>

StartDate == <<2024, 1, 1>>

ConfUsers == {<<>>, <<UserA>>, <<UserACap>>, <<UserA, UserB>>, <<UserACap, UserA>>}

ConfProjects ==
    { <<>>,
      <<[key |-> <<"P1">>, repos |-> <<Repo1>>]>>,
      <<[key |-> <<"P1">>, repos |-> <<Repo1>>], [key |-> <<"P2">>, repos |-> <<Repo1>>]>>,
      <<[key |-> <<"P1">>, repos |-> <<Repo1, Repo2>>]>> }

Configs ==
    [start_date : {PyNone, StartDate}, users : ConfUsers, projects : ConfProjects]

\* Items of the search for pull requests authored by a user
SearchItem(r) ==
    [repository_url |-> <<"https:", "", "api.github.com", "repos", r[1], r[2]>>]

SearchSources ==
    { [items |-> <<>>],
      [items |-> <<SearchItem(Repo1)>>],
      [items |-> <<SearchItem(Repo1), SearchItem(Repo2), SearchItem(Repo1)>>] }

\* Answers of /users/{user}: with a display name, with a null name, empty
UserObjects(u) ==
    LET Obj(n) == [name |-> n, avatar_url |-> <<"avatar-of">> \o u,
                   html_url |-> <<"url-of">> \o u]
    IN  { PyDict({"name", "avatar_url", "html_url"}, Obj(<<"N">>)),
          PyDict({"name", "avatar_url", "html_url"}, Obj(PyNone)),
          PyDict({}, Obj(PyNone)) }

\* Answers of /repos/{repo}: populated, empty
RepoObjects(r) ==
    LET Obj == [description |-> <<"desc-of">> \o r, html_url |-> <<"url-of">> \o r,
                owner_avatar_url |-> <<"avatar-of", r[1]>>]
    IN  { PyDict({"description", "html_url", "owner"}, Obj), PyDict({}, Obj) }

ContributorSources ==
    { [items |-> <<>>],
      [items |-> <<[login |-> <<"b">>], [login |-> <<"A">>]>>] }

PullRequest(login, created) == [user |-> [login |-> login], created_at |-> created]

PullSources ==
    { [items |-> <<>>],
      [items |-> << PullRequest(<<"A">>, <<2024, 1, 1, 0>>),
                    PullRequest(<<"a">>, <<2023, 12, 31, 23>>),
                    PullRequest(<<"b">>, <<2024, 1, 2, 10>>) >>] }

CommitSources == {Collection(0), Collection(MaxCommits)}

----------------------------------------------------------------------------
(* generate_report *)

\* get_all_pages has returned or raised and its locals are gone
EndFetch ==
    /\ url' = "none"
    /\ with_pagination' = FALSE
    /\ params' = [page |-> 0, per_page |-> 0]
    /\ source' = [items |-> <<>>]
    /\ page' = 1
    /\ attempt' = 0
    /\ results' = <<>>
    /\ ret' = NoValue
    /\ log' = <<>>
    /\ fpc' = "idle"

\* An assignment that adds an entry even when the key is there
DictAppend(d, key, value) == Append(d, [key |-> key, repos |-> value])

\* d[key] = value on a dict kept in insertion order
DictSet(d, key, value) ==
    IF \E i \in DOMAIN d : d[i].key = key
    THEN [i \in DOMAIN d |-> IF d[i].key = key THEN [key |-> key, repos |-> value] ELSE d[i]]
    ELSE Append(d, [key |-> key, repos |-> value])

\* for repo in repo_list: project_to_repo_dict[repo] = [repo]
RECURSIVE AddProjects(_, _)
AddProjects(d, repo_list) ==
    IF repo_list = <<>> THEN d
    ELSE AddProjects(DictSet(d, Head(repo_list), <<Head(repo_list)>>), Tail(repo_list))

\* The (project key, repository) pairs in the order of the nested loops
\* "for project_key, repo_list in ...items(): for repo in repo_list"
RECURSIVE Pairs(_)
Pairs(d) ==
    IF d = <<>> THEN <<>>
    ELSE [i \in DOMAIN Head(d).repos |-> [key |-> Head(d).key, repo |-> Head(d).repos[i]]]
         \o Pairs(Tail(d))

\* pr['repository_url'].split('/')[-2] + '/' + pr['repository_url'].split('/')[-1]
RepoFullName(segments) == <<segments[Len(segments) - 1], segments[Len(segments)]>>

\* github_conf_data.get(...) and the test "if not project_to_repo_dict"
ReadConfig ==
    /\ gpc = "start"
    /\ start_date' = conf.start_date
    /\ users' = conf.users
    /\ project_to_repo_dict' = conf.projects
    /\ di' = 1
    /\ gpc' = IF conf.projects = <<>> /\ conf.users # <<>> THEN "discover" ELSE "validate"
    /\ UNCHANGED <<conf, cpc, ui, ri, user_info_dict, repo_info_dict,
                   top_contributors_in_users, user_prs_dict, github_data, emitted,
                   prs, commits, discovered, aggVars,
                   collected, error, reportWritten, dumpWritten>>
    /\ UNCHANGED fetchVars

\* get_repositories_contributed_to(user): the call of get_all_pages
DiscoverCall ==
    /\ gpc = "discover"
    /\ fpc = "idle"
    /\ \E src \in SearchSources :
          StartFetch(SearchUrl, TRUE, [page |-> 0, per_page |-> PerPage], src)
    /\ UNCHANGED httpIssued
    /\ UNCHANGED reportVars

\* get_repositories_contributed_to(user): the repositories of the items found,
\* and one project per repository
DiscoverReturn ==
    /\ gpc = "discover"
    /\ fpc = "ret"
    /\ LET repositories == {RepoFullName(ret.items[i].repository_url) : i \in DOMAIN ret.items}
       IN  \E repo_list \in ListsOfSet(repositories) :
               project_to_repo_dict' = AddProjects(project_to_repo_dict, repo_list)
    /\ discovered' = Append(discovered,
                            {RepoFullName(ret.items[i].repository_url) : i \in DOMAIN ret.items})
    /\ di' = di + 1
    /\ gpc' = IF di < Len(users) THEN "discover" ELSE "validate"
    /\ EndFetch
    /\ UNCHANGED <<conf, start_date, users, cpc, ui, ri, user_info_dict, repo_info_dict,
                   top_contributors_in_users, user_prs_dict, github_data, emitted, prs,
                   commits, aggVars, collected, error, reportWritten, dumpWritten,
                   httpIssued>>

\* The validation of the input, the normalisation of the users and the entry
\* into process_github_data
Validate ==
    /\ gpc = "validate"
    /\ IF start_date = PyNone \/ users = <<>> \/ project_to_repo_dict = <<>>
       THEN /\ error' = "ValueError"
            /\ gpc' = "failed"
            /\ UNCHANGED <<users, cpc>>
       ELSE /\ users' = [i \in DOMAIN users |-> Normalize(users[i])]
            /\ gpc' = "collect"
            /\ cpc' = "user_info"
            /\ UNCHANGED error
    /\ discovered' = <<>>
    /\ ui' = 1
    /\ ri' = 1
    /\ UNCHANGED <<conf, start_date, project_to_repo_dict, di, user_info_dict,
                   repo_info_dict, top_contributors_in_users, user_prs_dict,
                   github_data, emitted, prs, commits, aggVars,
                   collected, reportWritten, dumpWritten>>
    /\ UNCHANGED fetchVars

----------------------------------------------------------------------------
(* process_github_data *)

configVars == <<conf, start_date, users, project_to_repo_dict, di>>

outputVars == <<collected, reportWritten, dumpWritten>>

\* An exception leaves process_github_data and generate_report
Fail(e) ==
    /\ error' = e
    /\ gpc' = "failed"

\* user_info = get_user_info(user): the call of get_all_pages
UserInfoCall ==
    /\ gpc = "collect" /\ cpc = "user_info"
    /\ fpc = "idle"
    /\ \E o \in UserObjects(users[ui]) :
          StartFetch("users", FALSE, [page |-> 0, per_page |-> 0], [obj |-> o])
    /\ UNCHANGED httpIssued
    /\ UNCHANGED reportVars

\* user_info_dict[user] = {"name": ..., "avatar_url": ..., "url": ...}
UserInfoReturn ==
    /\ gpc = "collect" /\ cpc = "user_info"
    /\ fpc = "ret"
    /\ IF ret.type # "dict"
       THEN \* a list has no attribute get
            /\ Fail("AttributeError")
            /\ UNCHANGED <<user_info_dict, ui, cpc>>
       ELSE /\ user_info_dict' =
                  (users[ui] :> [name |-> DictGet(ret, "name", users[ui]),
                                 avatar_url |-> DictGet(ret, "avatar_url", PyNone),
                                 url |-> DictGet(ret, "html_url", PyNone)])
                  @@ user_info_dict
            /\ IF ui < Len(users)
               THEN ui' = ui + 1 /\ cpc' = cpc
               ELSE ui' = 1 /\ cpc' = "repo_info"
            /\ UNCHANGED <<error, gpc>>
    /\ EndFetch
    /\ UNCHANGED <<configVars, outputVars, ri, repo_info_dict, top_contributors_in_users,
                   user_prs_dict, github_data, emitted, prs, commits, discovered,
                   aggVars, httpIssued>>

\* repo_info = get_repo_info(repo): the call of get_all_pages
RepoInfoCall ==
    /\ gpc = "collect" /\ cpc = "repo_info"
    /\ fpc = "idle"
    /\ \E o \in RepoObjects(Pairs(project_to_repo_dict)[ri].repo) :
          StartFetch("repos", FALSE, [page |-> 0, per_page |-> 0], [obj |-> o])
    /\ UNCHANGED httpIssued
    /\ UNCHANGED reportVars

\* repo_info_dict[repo] = {"description": ..., "url": ..., "avatar_url": ...}
RepoInfoReturn ==
    /\ gpc = "collect" /\ cpc = "repo_info"
    /\ fpc = "ret"
    /\ IF ret.type # "dict"
       THEN /\ Fail("AttributeError")
            /\ UNCHANGED <<repo_info_dict, ri, cpc>>
       ELSE /\ repo_info_dict' =
                  (Pairs(project_to_repo_dict)[ri].repo :>
                      [description |-> DictGet(ret, "description", PyNone),
                       url |-> DictGet(ret, "html_url", PyNone),
                       avatar_url |-> IF "owner" \in ret.keys
                                      THEN ret.val.owner_avatar_url ELSE PyNone])
                  @@ repo_info_dict
            /\ IF ri < Len(Pairs(project_to_repo_dict))
               THEN ri' = ri + 1 /\ cpc' = cpc
               ELSE ri' = 1 /\ cpc' = "contributors"
            /\ UNCHANGED <<error, gpc>>
    /\ EndFetch
    /\ UNCHANGED <<configVars, outputVars, ui, user_info_dict, top_contributors_in_users,
                   user_prs_dict, github_data, emitted, prs, commits, discovered,
                   aggVars, httpIssued>>

\* top_contributors = get_top_contributors(repo): the call of get_all_pages
ContributorsCall ==
    /\ gpc = "collect" /\ cpc = "contributors"
    /\ fpc = "idle"
    /\ \E src \in ContributorSources :
          StartFetch("contributors", TRUE, [page |-> 0, per_page |-> PerPage], src)
    /\ UNCHANGED httpIssued
    /\ UNCHANGED reportVars

\* top_contributors_rank = {login.lower(): rank for rank, contributor in
\* enumerate(top_contributors, start=1)}: the last entry of a login wins
TopContributorsRank(top_contributors) ==
    LET logins == {Lower(top_contributors[i].login) : i \in DOMAIN top_contributors}
    IN  [l \in logins |->
            CHOOSE i \in DOMAIN top_contributors :
                /\ Lower(top_contributors[i].login) = l
                /\ \A j \in DOMAIN top_contributors :
                      Lower(top_contributors[j].login) = l => j <= i]

\* The rank map of the repository and the ranks of the configured users
ContributorsReturn ==
    /\ gpc = "collect" /\ cpc = "contributors"
    /\ fpc = "ret"
    /\ LET top_contributors_rank == TopContributorsRank(ret.items)
       IN  top_contributors_in_users' =
               [u \in Range(users) \cap DOMAIN top_contributors_rank |->
                   top_contributors_rank[u]]
    /\ cpc' = "pulls"
    /\ EndFetch
    /\ UNCHANGED <<configVars, outputVars, ui, ri, user_info_dict, repo_info_dict,
                   user_prs_dict, github_data, emitted, prs, commits, discovered,
                   aggVars, error, gpc, httpIssued>>

\* prs = get_pull_requests(repo, state="open"): the call of get_all_pages
PullsCall ==
    /\ gpc = "collect" /\ cpc = "pulls"
    /\ fpc = "idle"
    /\ \E src \in PullSources :
          StartFetch("pulls", TRUE, [page |-> 0, per_page |-> PerPage], src)
    /\ UNCHANGED httpIssued
    /\ UNCHANGED reportVars

\* A filter that keeps every pull request, whatever its date
CreatedSinceAlways(pr, since) == TRUE

\* pr["created_at"] >= start_date
CreatedSince(pr, since) == ~LexLess(pr.created_at, since)

\* A map keyed by the login as the API spells it
UserPrsDictRawLogin(pr_list, since) ==
    LET kept == {i \in DOMAIN pr_list : CreatedSince(pr_list[i], since)}
    IN  [l \in {pr_list[i].user.login : i \in kept} |->
            LET Mine(pr) == pr.user.login = l /\ CreatedSince(pr, since)
            IN  SelectSeq(pr_list, Mine)]

\* A map built from the first pull request of the answer only
UserPrsDictFirstOnly(pr_list, since) ==
    LET Login(pr) == Strip(Lower(pr.user.login))
        first == IF pr_list = <<>> THEN <<>> ELSE <<pr_list[1]>>
        kept == {i \in DOMAIN first : CreatedSince(first[i], since)}
    IN  [l \in {Login(first[i]) : i \in kept} |->
            LET Mine(pr) == Login(pr) = l /\ CreatedSince(pr, since)
            IN  SelectSeq(first, Mine)]

\* user_prs_dict: the pull requests created since start_date, by author login
UserPrsDict(pr_list, since) ==
    LET Login(pr) == Strip(Lower(pr.user.login))
        kept == {i \in DOMAIN pr_list : CreatedSince(pr_list[i], since)}
    IN  [l \in {Login(pr_list[i]) : i \in kept} |->
            LET Mine(pr) == Login(pr) = l /\ CreatedSince(pr, since)
            IN  SelectSeq(pr_list, Mine)]

PullsReturn ==
    /\ gpc = "collect" /\ cpc = "pulls"
    /\ fpc = "ret"
    /\ prs' = ret.items
    /\ user_prs_dict' = UserPrsDict(ret.items, start_date)
    /\ cpc' = "commits"
    /\ ui' = 1
    /\ EndFetch
    /\ UNCHANGED <<configVars, outputVars, ri, user_info_dict, repo_info_dict,
                   top_contributors_in_users, github_data, emitted, commits, discovered,
                   aggVars, error, gpc, httpIssued>>

\* commits = get_commits(user, repo, formatted_start_date): the call
CommitsCall ==
    /\ gpc = "collect" /\ cpc = "commits"
    /\ fpc = "idle"
    /\ \E src \in CommitSources :
          StartFetch("commits", TRUE, [page |-> 0, per_page |-> PerPage], src)
    /\ UNCHANGED httpIssued
    /\ UNCHANGED reportVars

\* A record whose overall contribution leaves the pull requests out
ContributionRecordCommitsOnly(project_key, repo, user, commit_count, pr_count) ==
    [Project_Key |-> project_key,
     Repository |-> repo,
     Repository_URL |-> repo_info_dict[repo].url,
     Repository_Description |-> repo_info_dict[repo].description,
     Repository_Avatar |-> repo_info_dict[repo].avatar_url,
     User |-> IF user_info_dict[user].name # <<>> THEN user_info_dict[user].name ELSE user,
     User_Avatar |-> user_info_dict[user].avatar_url,
     User_URL |-> user_info_dict[user].url,
     Commits |-> commit_count,
     Pull_Requests_Open |-> pr_count,
     Rank |-> IF user \in DOMAIN top_contributors_in_users
              THEN top_contributors_in_users[user] ELSE -1,
     Overall_Contribution |-> commit_count]

\* The record appended to github_data for one (project, repository, user)
ContributionRecord(project_key, repo, user, commit_count, pr_count) ==
    LET user_info == user_info_dict[user]
        repo_info == repo_info_dict[repo]
    IN  [Project_Key |-> project_key,
         Repository |-> repo,
         Repository_URL |-> repo_info.url,
         Repository_Description |-> repo_info.description,
         Repository_Avatar |-> repo_info.avatar_url,
         User |-> IF user_info.name # <<>> THEN user_info.name ELSE user,
         User_Avatar |-> user_info.avatar_url,
         User_URL |-> user_info.url,
         Commits |-> commit_count,
         Pull_Requests_Open |-> pr_count,
         Rank |-> IF user \in DOMAIN top_contributors_in_users
                  THEN top_contributors_in_users[user] ELSE -1,
         Overall_Contribution |-> commit_count + pr_count]

\* The counts of one user, the record, and the next turn of the loops; after
\* the last repository process_github_data returns github_data
CommitsReturn ==
    /\ gpc = "collect" /\ cpc = "commits"
    /\ fpc = "ret"
    /\ LET pair == Pairs(project_to_repo_dict)[ri]
           user == users[ui]
           commit_count == Len(ret.items)
           \* user_prs_dict is a defaultdict: reading a missing key inserts it
           prs_dict == IF user \in DOMAIN user_prs_dict THEN user_prs_dict
                       ELSE (user :> <<>>) @@ user_prs_dict
           pr_count == Len(prs_dict[user])
           record == ContributionRecord(pair.key, pair.repo, user, commit_count, pr_count)
       IN  /\ commits' = ret.items
           /\ user_prs_dict' = prs_dict
           /\ github_data' = Append(github_data, record)
           /\ emitted' = Append(emitted, <<pair.key, pair.repo, user>>)
           /\ IF ui < Len(users)
              THEN /\ ui' = ui + 1
                   /\ UNCHANGED <<ri, cpc, gpc, collected>>
              ELSE IF ri < Len(Pairs(project_to_repo_dict))
              THEN /\ ui' = 1
                   /\ ri' = ri + 1
                   /\ cpc' = "contributors"
                   /\ UNCHANGED <<gpc, collected>>
              ELSE /\ collected' = PyList(Append(github_data, record))
                   /\ cpc' = "idle"
                   /\ gpc' = "report"
                   /\ UNCHANGED <<ui, ri>>
    /\ EndFetch
    /\ UNCHANGED <<configVars, reportWritten, dumpWritten, user_info_dict, repo_info_dict,
                   top_contributors_in_users, error, httpIssued, prs, discovered, aggVars>>

\* An except clause that logs the error and goes on with what was collected
FetchRaisedSwallowed ==
    /\ gpc \in {"discover", "collect"}
    /\ fpc = "raised"
    /\ error' = "RequestException"
    /\ collected' = PyList(github_data)
    /\ gpc' = "report"
    /\ cpc' = "idle"
    /\ EndFetch
    /\ UNCHANGED <<configVars, ui, ri, user_info_dict, repo_info_dict,
                   top_contributors_in_users, user_prs_dict, github_data, emitted,
                   prs, commits, discovered, aggVars,
                   reportWritten, dumpWritten, httpIssued>>

\* get_all_pages raised after its last attempt: "except Exception: raise" in
\* process_github_data and in generate_report
FetchRaised ==
    /\ gpc \in {"discover", "collect"}
    /\ fpc = "raised"
    /\ Fail("RequestException")
    /\ cpc' = "idle"
    /\ EndFetch
    /\ UNCHANGED <<configVars, outputVars, ui, ri, user_info_dict, repo_info_dict,
                   top_contributors_in_users, user_prs_dict, github_data, emitted,
                   prs, commits, discovered, aggVars,
                   httpIssued>>

----------------------------------------------------------------------------
(* Tables.  A DataFrame is its rows in index order, a row is a record of    *)
(* its columns.                                                             *)

DataFrame(rows) == [type |-> "frame", rows |-> rows]

\* pd.DataFrame(github_data)
convert_to_dataframe(data) == DataFrame(data)

\* The order of the characters, by code point
Alphabet == <<" ", "A", "N", "Other", "P1", "P2", "a", "b", "c", "d",
              "nan", "o", "r1", "r2">>

TokenRank(t) == CHOOSE i \in DOMAIN Alphabet : Alphabet[i] = t

\* a < b on Python strings
RECURSIVE TextLess(_, _)
TextLess(a, b) ==
    IF b = <<>> THEN FALSE
    ELSE IF a = <<>> THEN TRUE
    ELSE IF Head(a) # Head(b) THEN TokenRank(Head(a)) < TokenRank(Head(b))
    ELSE TextLess(Tail(a), Tail(b))

\* A missing value of a table read from a file
IsNaN(v) == v # <<>> /\ v[1] = "nan"

RECURSIVE SumSeq(_)
SumSeq(s) == IF s = <<>> THEN 0 ELSE Head(s) + SumSeq(Tail(s))

\* df[col] as a list
Column(rows, col) == [i \in DOMAIN rows |-> rows[i][col]]

\* A filter that only looks at the commits
filter_commits_only(df) ==
    LET Keep(r) == r.Commits > 0
    IN  DataFrame(SelectSeq(df.rows, Keep))

\* filtered_df = github_data_df[(Commits > 0) | (Pull Requests (Open) > 0)]
filter_contributions(df) ==
    LET Keep(r) == r.Commits > 0 \/ r.Pull_Requests_Open > 0
    IN  DataFrame(SelectSeq(df.rows, Keep))

\* The group keys of groupby(field), ascending; rows with a missing key are
\* left out of every group
GroupKeys(df, field) ==
    LET keys == {df.rows[i][field] : i \in DOMAIN df.rows}
        present == {k \in keys : ~IsNaN(k)}
    IN  CHOOSE s \in ListsOfSet(present) :
            \A i, j \in DOMAIN s : i < j => TextLess(s[i], s[j])

\* A group that holds only the first row of its key
GroupFirstRow(df, field, k) ==
    LET Mine(r) == r[field] = k
    IN  SubSeq(SelectSeq(df.rows, Mine), 1, 1)

\* The rows of one group
Group(df, field, k) ==
    LET Mine(r) == r[field] = k
    IN  SelectSeq(df.rows, Mine)

\* The tuples of all the rows, sorted but not made a set
SortedWithDuplicates(rows, a, b, c) ==
    LET tuples == [i \in DOMAIN rows |-> <<rows[i][a], rows[i][b], rows[i][c]>>]
    IN  {s \in {[i \in DOMAIN rows |-> tuples[pi[i]]] : pi \in ListsOfSet(DOMAIN rows)} :
            \A i, j \in DOMAIN s : i < j => ~TextLess(s[j][1], s[i][1])}

\* sorted(list(set(zip(a, b, c))), key=lambda y: y[0]): the set of the
\* tuples in ascending order of the first component; tuples with equal first
\* components stay in the order in which the set enumerates them
SortedListings(rows, a, b, c) ==
    LET tuples == {<<rows[i][a], rows[i][b], rows[i][c]>> : i \in DOMAIN rows}
    IN  {s \in ListsOfSet(tuples) :
            \A i, j \in DOMAIN s : i < j => ~TextLess(s[j][1], s[i][1])}

\* The rows project_df can have for one project key
ProjectRows(df, k) ==
    LET rows == Group(df, "Project_Key", k)
        c == SumSeq(Column(rows, "Commits"))
        p == SumSeq(Column(rows, "Pull_Requests_Open"))
    IN  {[Project_Key |-> k,
          Commits |-> c,
          Pull_Requests_Open |-> p,
          Repositories |-> rl,
          Repository_Count |-> Cardinality(Range(Column(rows, "Repository"))),
          Users |-> ul,
          Overall_Contribution |-> c + p] :
            rl \in SortedListings(rows, "Repository", "Repository_URL", "Repository_Avatar"),
            ul \in SortedListings(rows, "User", "User_URL", "User_Avatar")}

\* The rows users_df can have for one value of the column User
UserRows(df, k) ==
    LET rows == Group(df, "User", k)
        c == SumSeq(Column(rows, "Commits"))
        p == SumSeq(Column(rows, "Pull_Requests_Open"))
    IN  {[User |-> k,
          Commits |-> c,
          Pull_Requests_Open |-> p,
          Repositories |-> rl,
          Repository_Count |-> Cardinality(Range(Column(rows, "Repository"))),
          User_URL |-> rows[1].User_URL,
          User_Avatar |-> rows[1].User_Avatar,
          Overall_Contribution |-> c + p] :
            rl \in SortedListings(rows, "Repository", "Repository_URL", "Repository_Avatar")}

\* A selection that lets the rows without contribution through
PositiveOverallOrZero(rows) ==
    LET Keep(r) == r.Overall_Contribution >= 0
    IN  SelectSeq(rows, Keep)

\* df[df['Overall Contribution'] > 0]
PositiveOverall(rows) ==
    LET Keep(r) == r.Overall_Contribution > 0
    IN  SelectSeq(rows, Keep)

\* The project rollups group_contributions can return
ProjectRollups(df) ==
    LET keys == GroupKeys(df, "Project_Key")
        choices == UNION {ProjectRows(df, keys[i]) : i \in DOMAIN keys}
    IN  {DataFrame(PositiveOverall(f)) :
            f \in {g \in [DOMAIN keys -> choices] :
                      \A i \in DOMAIN keys : g[i] \in ProjectRows(df, keys[i])}}

\* The user rollups group_contributions can return
UserRollups(df) ==
    LET keys == GroupKeys(df, "User")
        choices == UNION {UserRows(df, keys[i]) : i \in DOMAIN keys}
    IN  {DataFrame(PositiveOverall(f)) :
            f \in {g \in [DOMAIN keys -> choices] :
                      \A i \in DOMAIN keys : g[i] \in UserRows(df, keys[i])}}

\* The pairs (project_df, users_df) group_contributions can return
group_contributions(df) == ProjectRollups(df) \X UserRollups(df)

\* A threshold of p times the maximum, without the division by 100
LessThanMultiple(overall, max, p) == overall < max * p

\* A comparison that also takes the groups at the threshold
LessOrEqualThreshold(overall, max, p) == overall * 100 <= max * p

\* df_copy['Overall Contribution'] < threshold, where
\* threshold = df_copy['Overall Contribution'].max() * percentage / 100
LessThanThreshold(overall, max, p) == overall * 100 < max * p

\* The charts create_pie_chart can draw: value_counts, the sum of the overall
\* contribution per label after the relabelling, in descending order (labels
\* of equal value in any order), and total = value_counts.sum()
create_pie_chart(df, field, p) ==
    LET keys == GroupKeys(df, field)
        Overall(k) == SumSeq(Column(Group(df, field, k), "Commits"))
                      + SumSeq(Column(Group(df, field, k), "Pull_Requests_Open"))
        overalls == [i \in DOMAIN keys |-> Overall(keys[i])]
        max == CHOOSE m \in Range(overalls) : \A i \in DOMAIN keys : overalls[i] <= m
        Label(i) == IF p # -1 /\ LessThanThreshold(overalls[i], max, p)
                    THEN <<"Other">> ELSE keys[i]
        Value(l) == SumSeq([i \in DOMAIN keys |-> IF Label(i) = l THEN overalls[i] ELSE 0])
        groups == {[label |-> Label(i), value |-> Value(Label(i))] : i \in DOMAIN keys}
    IN  {[type |-> "chart", value_counts |-> s,
          total |-> SumSeq([i \in DOMAIN s |-> s[i].value])] :
            s \in {t \in ListsOfSet(groups) :
                      \A i, j \in DOMAIN t : i < j => t[i].value >= t[j].value}}

\* The columns of the dump that hold text
TextColumns == {"Project_Key", "Repository", "Repository_URL", "Repository_Description",
                "Repository_Avatar", "User", "User_Avatar", "User_URL"}

\* github_data_df.to_csv(..., index=False): the rows without their index;
\* None and the empty string are both written as an empty field
to_csv(df) ==
    [type |-> "csv",
     rows |-> [i \in DOMAIN df.rows |->
                 [c \in DOMAIN df.rows[i] |->
                     IF c \in TextColumns /\ (df.rows[i][c] = PyNone \/ IsNaN(df.rows[i][c]))
                     THEN <<>> ELSE df.rows[i][c]]]]

\* pd.read_csv: an empty field is read as a missing value.  A column whose
\* fields are all empty becomes a column of floats, and every read of one of
\* its cells gives a NaN of its own, equal to no other; in a column that also
\* holds text the missing values are one and the same object.
read_csv(csv) ==
    LET AllEmpty(c) == \A i \in DOMAIN csv.rows : csv.rows[i][c] = <<>>
        Cell(i, c) == IF c \in TextColumns /\ csv.rows[i][c] = <<>>
                      THEN IF AllEmpty(c) THEN <<"nan", ToString(i)>> ELSE <<"nan">>
                      ELSE csv.rows[i][c]
    IN  DataFrame([i \in DOMAIN csv.rows |-> [c \in DOMAIN csv.rows[i] |-> Cell(i, c)]])

\* process_data_and_create_report up to the report: process_data, then
\* create_markdown_report with the project chart at the default percentage
\* and the user chart at the given one
\* (a table without contributing rows gives empty rollups and empty charts,
\* and the report then reads "No contributions found for the given users.")
CreateReport(df) ==
    /\ filtered_df' = filter_contributions(df)
    /\ \E g \in group_contributions(filter_contributions(df)) :
          /\ projects_df' = g[1]
          /\ users_df' = g[2]
          /\ project_chart' \in create_pie_chart(g[1], "Project_Key", -1)
          /\ user_chart' \in create_pie_chart(g[2], "User", percentage)
    /\ reportWritten' = TRUE

\* generate_report: convert_to_dataframe and process_data_and_create_report
\* up to the report
WriteReport ==
    /\ gpc = "report"
    /\ github_data_df' = convert_to_dataframe(collected.items)
    /\ CreateReport(convert_to_dataframe(collected.items))
    /\ gpc' = "dump"
    /\ UNCHANGED <<configVars, cpc, ui, ri, user_info_dict, repo_info_dict,
                   top_contributors_in_users, user_prs_dict, github_data, emitted,
                   prs, commits, discovered, collected, error, dumpWritten,
                   percentage, dump, lpc>>
    /\ UNCHANGED fetchVars

\* process_data_and_create_report: github_data_df.to_csv (shouldDump is True);
\* github_data_df is by then the filtered table
WriteDump ==
    /\ gpc = "dump"
    /\ dump' = to_csv(filtered_df)
    /\ dumpWritten' = TRUE
    /\ gpc' = "done"
    /\ UNCHANGED <<configVars, cpc, ui, ri, user_info_dict, repo_info_dict,
                   top_contributors_in_users, user_prs_dict, github_data, emitted,
                   prs, commits, discovered, collected, error, reportWritten,
                   percentage, github_data_df, filtered_df, projects_df, users_df,
                   project_chart, user_chart, lpc>>
    /\ UNCHANGED fetchVars

collectVars == <<configVars, gpc, cpc, ui, ri, user_info_dict, repo_info_dict,
                 top_contributors_in_users, user_prs_dict, github_data, emitted,
                 prs, commits, discovered, collected, error>>

\* A local path that asks the API before it reads the file
LocalReadOnline ==
    /\ lpc = "idle"
    /\ dump # NoValue
    /\ github_data_df' = read_csv(dump)
    /\ lpc' = "report"
    /\ httpIssued' = TRUE
    /\ UNCHANGED <<collectVars, reportWritten, dumpWritten, percentage, filtered_df,
                   projects_df, users_df, project_chart, user_chart, dump>>
    /\ UNCHANGED <<url, with_pagination, params, page, attempt, results, fpc, ret,
                   source, log>>

\* generate_report_with_local_data: github_data_df = pd.read_csv(path)
LocalRead ==
    /\ lpc = "idle"
    /\ dump # NoValue
    /\ github_data_df' = read_csv(dump)
    /\ lpc' = "report"
    /\ UNCHANGED <<collectVars, reportWritten, dumpWritten, percentage, filtered_df,
                   projects_df, users_df, project_chart, user_chart, dump>>
    /\ UNCHANGED fetchVars

\* generate_report_with_local_data: process_data_and_create_report with
\* shouldDump=False
LocalReport ==
    /\ lpc = "report"
    /\ CreateReport(github_data_df)
    /\ lpc' = "done"
    /\ UNCHANGED <<collectVars, dumpWritten, percentage, github_data_df, dump>>
    /\ UNCHANGED fetchVars

----------------------------------------------------------------------------
(* Specification of one run of generate_report *)

InitReport ==
    /\ conf \in Configs
    /\ gpc = "start"
    /\ start_date = PyNone
    /\ users = <<>>
    /\ project_to_repo_dict = <<>>
    /\ di = 1
    /\ cpc = "idle"
    /\ ui = 1
    /\ ri = 1
    /\ user_info_dict = <<>>
    /\ repo_info_dict = <<>>
    /\ top_contributors_in_users = <<>>
    /\ user_prs_dict = <<>>
    /\ github_data = <<>>
    /\ emitted = <<>>
    /\ prs = <<>>
    /\ commits = <<>>
    /\ discovered = <<>>
    /\ percentage = -1
    /\ github_data_df = NoValue
    /\ filtered_df = NoValue
    /\ projects_df = NoValue
    /\ users_df = NoValue
    /\ project_chart = NoValue
    /\ user_chart = NoValue
    /\ dump = NoValue
    /\ lpc = "idle"
    /\ collected = NoValue
    /\ error = "none"
    /\ reportWritten = FALSE
    /\ dumpWritten = FALSE
    /\ httpIssued = FALSE
    /\ url = "none"
    /\ with_pagination = FALSE
    /\ params = [page |-> 0, per_page |-> 0]
    /\ source = [items |-> <<>>]
    /\ page = 1
    /\ attempt = 0
    /\ results = <<>>
    /\ ret = NoValue
    /\ log = <<>>
    /\ fpc = "idle"

NextReport ==
    \/ ReadConfig
    \/ DiscoverCall
    \/ DiscoverReturn
    \/ Validate
    \/ UserInfoCall
    \/ UserInfoReturn
    \/ RepoInfoCall
    \/ RepoInfoReturn
    \/ ContributorsCall
    \/ ContributorsReturn
    \/ PullsCall
    \/ PullsReturn
    \/ CommitsCall
    \/ CommitsReturn
    \/ FetchRaised
    \/ WriteReport
    \/ WriteDump
    \/ LocalRead
    \/ LocalReport
    \/ WhileTop
    \/ SendRequest
    \/ ResponseOK
    \/ ResponseError

SpecReport == InitReport /\ [][NextReport]_vars

----------------------------------------------------------------------------
(* Claims about generate_report and process_github_data, checked under     *)
(* SpecReport                                                              *)

\* Number of records process_github_data is to emit: repositories x users,
\* summed over the projects
ExpectedRecords == Len(Pairs(project_to_repo_dict)) * Len(users)

\* C8: collection is all-or-nothing: when a fetch has exhausted its retries
\* generate_report has failed, process_github_data has returned nothing and
\* neither the report nor the dump is written; whatever process_github_data
\* returns is the complete list, and the files are only written after it.
C8_AllOrNothing ==
    /\ error = "RequestException" =>
          /\ gpc = "failed"
          /\ collected = NoValue
          /\ ~reportWritten
          /\ ~dumpWritten
    /\ collected # NoValue => Len(collected.items) = ExpectedRecords
    /\ (reportWritten \/ dumpWritten) => (collected # NoValue /\ error = "none")

\* C8 witness: a fetch exhausted its retries after a record had been
\* collected, and the run has failed with nothing returned or written
C8_Witness ==
    /\ error = "RequestException"
    /\ gpc = "failed"
    /\ Len(github_data) > 0
    /\ collected = NoValue
    /\ ~reportWritten

\* C9: a run that fails with a configuration error (missing start_date, no
\* users, no repositories) has issued no HTTP request.
C9_ConfigErrorBeforeHttp ==
    error = "ValueError" => ~httpIssued

\* C10: process_github_data emits exactly one record per (project,
\* repository, user) triple: as many records as repositories x users summed
\* over the projects, and no two records for the same triple.
C10_OneRecordPerTriple ==
    collected # NoValue =>
        /\ Len(collected.items) = ExpectedRecords
        /\ Len(emitted) = ExpectedRecords
        /\ NoDuplicates(emitted)
        /\ \A i \in DOMAIN Pairs(project_to_repo_dict), j \in DOMAIN users :
              \E k \in DOMAIN emitted :
                  emitted[k] = <<Pairs(project_to_repo_dict)[i].key,
                                 Pairs(project_to_repo_dict)[i].repo, users[j]>>

\* C11: every ContributionRecord has Overall Contribution = Commits + Pull
\* Requests (Open): the records process_github_data emits and returns, and the
\* rows of the filtered table of the report, on the live path and on the path
\* that reloads the dump.
C11_OverallIsSum ==
    LET Sums(r) == r.Overall_Contribution = r.Commits + r.Pull_Requests_Open
    IN  /\ \A i \in DOMAIN github_data : Sums(github_data[i])
        /\ collected # NoValue => \A i \in DOMAIN collected.items : Sums(collected.items[i])
        /\ filtered_df # NoValue => \A i \in DOMAIN filtered_df.rows : Sums(filtered_df.rows[i])

\* C11 witness: the report of the reloaded dump has a filtered row with
\* commits and pull requests
C11_Witness ==
    /\ lpc = "done"
    /\ \E i \in DOMAIN filtered_df.rows :
          /\ filtered_df.rows[i].Commits > 0
          /\ filtered_df.rows[i].Pull_Requests_Open > 0

\* The day of a time stamp (year, month, day, ...) as a number
DayNumber(t) == t[1] * 10000 + t[2] * 100 + t[3]

\* The open pull requests of the list created on or after the day since by
\* the user
MatchingPullRequests(pr_list, user, since) ==
    {i \in DOMAIN pr_list :
        /\ Strip(Lower(pr_list[i].user.login)) = user
        /\ DayNumber(pr_list[i].created_at) >= DayNumber(since)}

\* C12: whenever a record is emitted, its open-PR count is the number of open
\* pull requests of the repository created on or after start_date whose author
\* login, lower-cased and trimmed, is the user of the record; a pull request
\* created on the start date itself is counted.
C12_OpenPrCount ==
    [][Len(github_data') = Len(github_data) + 1 =>
         github_data'[Len(github_data')].Pull_Requests_Open =
             Cardinality(MatchingPullRequests(prs, emitted'[Len(emitted')][3], start_date))]_vars

\* C12 witness: the record of user a on the first repository counts one pull
\* request, the one login "A" created on the start date, out of three
C12_Witness ==
    /\ users = <<UserA, UserB>>
    /\ gpc = "collect" /\ cpc = "commits" /\ ri = 1 /\ ui = 2
    /\ Len(prs) = 3
    /\ DayNumber(prs[1].created_at) = DayNumber(start_date)
    /\ Len(github_data) = 1
    /\ github_data[1].Pull_Requests_Open = 1

\* C13: filter_contributions keeps exactly the records with Commits > 0 or
\* Pull Requests (Open) > 0, in their original order, and filtering the
\* filtered table again yields the same table.
C13_FilterKeepsNonZero ==
    filtered_df # NoValue =>
        LET rows == github_data_df.rows
            kept == {i \in DOMAIN rows :
                        rows[i].Commits > 0 \/ rows[i].Pull_Requests_Open > 0}
        IN  /\ Len(filtered_df.rows) = Cardinality(kept)
            /\ \A i \in kept :
                  filtered_df.rows[Cardinality({k \in kept : k <= i})] = rows[i]
            /\ filter_contributions(filtered_df) = filtered_df

\* C13 witness: of at least three collected records two were kept and the
\* first one was dropped
C13_Witness ==
    /\ gpc = "done" /\ lpc = "idle"
    /\ Len(github_data_df.rows) >= 3
    /\ Len(filtered_df.rows) = 2
    /\ github_data_df.rows[1].Overall_Contribution = 0
    /\ \E i \in DOMAIN filtered_df.rows :
          filtered_df.rows[i].Commits = 0 /\ filtered_df.rows[i].Pull_Requests_Open > 0

----------------------------------------------------------------------------
(* Specification of one run of generate_report_with_local_data over a file *)
(* of contribution records                                                 *)

MaxRows == 2

\* A row of the file: a record of a user on a repository of a project
LocalRow(project_key, repo, user, commit_count, pr_count) ==
    [Project_Key |-> project_key,
     Repository |-> repo,
     Repository_URL |-> <<"url-of">> \o repo,
     Repository_Description |-> <<"desc-of">> \o repo,
     Repository_Avatar |-> <<"avatar-of", repo[1]>>,
     User |-> user,
     User_Avatar |-> <<"avatar-of">> \o user,
     User_URL |-> <<"url-of">> \o user,
     Commits |-> commit_count,
     Pull_Requests_Open |-> pr_count,
     Rank |-> -1,
     Overall_Contribution |-> commit_count + pr_count]

LocalRows ==
    {LocalRow(pr[1], pr[2], u, n[1], n[2]) :
        pr \in {<<(<<"P1">>), Repo1>>, <<(<<"P1">>), Repo2>>, <<(<<"P2">>), Repo1>>},
        u \in {UserA, UserB},
        n \in {<<0, 0>>, <<2, 0>>, <<0, 1>>}}

\* Four users with 100, 40, 5 and 2 contributions
PieExample ==
    << LocalRow(<<"P1">>, Repo1, <<"a">>, 100, 0),
       LocalRow(<<"P1">>, Repo1, <<"b">>, 38, 2),
       LocalRow(<<"P1">>, Repo2, <<"c">>, 5, 0),
       LocalRow(<<"P2">>, Repo1, <<"d">>, 0, 2) >>

LocalFiles ==
    {[type |-> "csv", rows |-> t] :
        t \in UNION {[1 .. n -> LocalRows] : n \in 0 .. MaxRows} \cup {PieExample}}

Percentages == {-1, 0, 10, 100, 200}

InitLocal ==
    /\ dump \in LocalFiles
    /\ percentage \in Percentages
    /\ lpc = "idle"
    /\ github_data_df = NoValue
    /\ filtered_df = NoValue
    /\ projects_df = NoValue
    /\ users_df = NoValue
    /\ project_chart = NoValue
    /\ user_chart = NoValue
    /\ reportWritten = FALSE
    /\ dumpWritten = FALSE
    /\ conf = [start_date |-> <<>>, users |-> <<>>, projects |-> <<>>]
    /\ gpc = "idle"
    /\ start_date = <<>>
    /\ users = <<>>
    /\ project_to_repo_dict = <<>>
    /\ di = 1
    /\ cpc = "idle"
    /\ ui = 1
    /\ ri = 1
    /\ user_info_dict = <<>>
    /\ repo_info_dict = <<>>
    /\ top_contributors_in_users = <<>>
    /\ user_prs_dict = <<>>
    /\ github_data = <<>>
    /\ emitted = <<>>
    /\ prs = <<>>
    /\ commits = <<>>
    /\ discovered = <<>>
    /\ collected = NoValue
    /\ error = "none"
    /\ httpIssued = FALSE
    /\ url = "none"
    /\ with_pagination = FALSE
    /\ params = [page |-> 0, per_page |-> 0]
    /\ source = [items |-> <<>>]
    /\ page = 1
    /\ attempt = 0
    /\ results = <<>>
    /\ ret = NoValue
    /\ log = <<>>
    /\ fpc = "idle"

NextLocal == LocalRead \/ LocalReport

SpecLocal == InitLocal /\ [][NextLocal]_vars

----------------------------------------------------------------------------
(* Claims about the rollups and the charts, checked under SpecLocal *)

\* C14: every row of the user rollup and of the project rollup has Overall
\* Contribution > 0 and Overall Contribution = its summed Commits + its summed
\* Pull Requests (Open): for the rollups of the report, and for
\* group_contributions applied to the table as it was read, rows without
\* contribution included.
C14_RollupRowsPositive ==
    LET Good(df, field, r) ==
            /\ r.Overall_Contribution > 0
            /\ r.Overall_Contribution = r.Commits + r.Pull_Requests_Open
            /\ \E i \in DOMAIN df.rows : df.rows[i][field] = r[field]
            /\ r.Commits = SumSeq([i \in DOMAIN df.rows |->
                               IF df.rows[i][field] = r[field] THEN df.rows[i].Commits ELSE 0])
            /\ r.Pull_Requests_Open =
                   SumSeq([i \in DOMAIN df.rows |->
                             IF df.rows[i][field] = r[field]
                             THEN df.rows[i].Pull_Requests_Open ELSE 0])
        AllGood(df, g) ==
            /\ \A i \in DOMAIN g[1].rows : Good(df, "Project_Key", g[1].rows[i])
            /\ \A i \in DOMAIN g[2].rows : Good(df, "User", g[2].rows[i])
    IN  /\ users_df # NoValue => AllGood(filtered_df, <<projects_df, users_df>>)
        /\ github_data_df # NoValue =>
              \A g \in group_contributions(github_data_df) : AllGood(github_data_df, g)

\* C14 witness: the user rollup has a row that sums two records, 2 commits
\* and 1 open pull request
C14_Witness ==
    /\ lpc = "done"
    /\ Len(filtered_df.rows) = 2
    /\ Len(users_df.rows) = 1
    /\ users_df.rows[1].Commits = 2
    /\ users_df.rows[1].Pull_Requests_Open = 1
    /\ users_df.rows[1].Overall_Contribution = 3

\* The rows of a table at the positions of a set, in their order
RowsAt(rows, S) ==
    LET idx == CHOOSE t \in ListsOfSet(S) : \A i, j \in DOMAIN t : i < j => t[i] < t[j]
    IN  [j \in DOMAIN idx |-> rows[idx[j]]]

\* A rollup by key: the counts, and the listings as sets
RollupByKey(df, field) ==
    [k \in {df.rows[i][field] : i \in DOMAIN df.rows} |->
        LET r == CHOOSE x \in Range(df.rows) : x[field] = k
        IN  [Commits |-> r.Commits,
             Pull_Requests_Open |-> r.Pull_Requests_Open,
             Overall_Contribution |-> r.Overall_Contribution,
             Repositories |-> Range(r.Repositories),
             Users |-> IF "Users" \in DOMAIN r THEN Range(r.Users) ELSE {}]]

\* The key-wise combination of two rollups: counts of matching keys summed,
\* listings united
CombineByKey(a, b) ==
    [k \in DOMAIN a \cup DOMAIN b |->
        IF k \notin DOMAIN b THEN a[k]
        ELSE IF k \notin DOMAIN a THEN b[k]
        ELSE [Commits |-> a[k].Commits + b[k].Commits,
              Pull_Requests_Open |-> a[k].Pull_Requests_Open + b[k].Pull_Requests_Open,
              Overall_Contribution |-> a[k].Overall_Contribution + b[k].Overall_Contribution,
              Repositories |-> a[k].Repositories \cup b[k].Repositories,
              Users |-> a[k].Users \cup b[k].Users]]

C18_ProportionalBucketing ==
    (lpc = "done" /\ users_df.rows # <<>>) =>
        LET rows == users_df.rows
            p == percentage
            overall == [i \in DOMAIN rows |-> rows[i].Overall_Contribution]
            max == CHOOSE m \in Range(overall) : \A i \in DOMAIN rows : overall[i] <= m
            small == IF p >= 0 THEN {i \in DOMAIN rows : overall[i] * 100 < max * p} ELSE {}
            other == IF small = {} THEN {}
                     ELSE {[label |-> <<"Other">>,
                            value |-> SumSeq([i \in DOMAIN rows |->
                                                IF i \in small THEN overall[i] ELSE 0])]}
            kept == {[label |-> rows[i].User, value |-> overall[i]] : i \in DOMAIN rows \ small}
            buckets == user_chart.value_counts
        IN  /\ Range(buckets) = kept \cup other
            /\ Len(buckets) = Cardinality(kept \cup other)
            /\ Cardinality({i \in DOMAIN buckets : buckets[i].label = <<"Other">>}) <= 1
            /\ \A i, j \in DOMAIN buckets : i < j => buckets[i].value >= buckets[j].value
            /\ user_chart.total = SumSeq(overall)
            /\ (overall = <<100, 40, 5, 2>> /\ p = 10) =>
                  /\ [i \in DOMAIN buckets |-> buckets[i].value] = <<100, 40, 7>>
                  /\ user_chart.total = 147
            /\ p = -1 => \A i \in DOMAIN buckets : buckets[i].label # <<"Other">>

\* C18 witness: the chart of the contributions 100, 40, 5 and 2 at p = 10 has
\* the buckets 100, 40 and 7 (Other) and the total 147
C18_Witness ==
    /\ lpc = "done"
    /\ percentage = 10
    /\ Len(users_df.rows) = 4
    /\ [i \in DOMAIN user_chart.value_counts |-> user_chart.value_counts[i].value]
          = <<100, 40, 7>>
    /\ user_chart.value_counts[3].label = <<"Other">>
    /\ user_chart.total = 147

\* The sum of Commits and Pull Requests (Open) of the rows of one group
GroupContribution(df, field, k) ==
    SumSeq(Column(Group(df, field, k), "Commits"))
    + SumSeq(Column(Group(df, field, k), "Pull_Requests_Open"))

\* The chart of the table grouped by the field at percentage p keeps the total
\* of its groups, and between 0 and 100 it keeps the label of every group
\* with the maximum contribution
TotalPreserved(chart, df, field, p) ==
    LET keys == GroupKeys(df, field)
        contribution == [i \in DOMAIN keys |-> GroupContribution(df, field, keys[i])]
        buckets == chart.value_counts
        values == [i \in DOMAIN buckets |-> buckets[i].value]
        IsMax(i) == \A j \in DOMAIN keys : contribution[j] <= contribution[i]
    IN  /\ SumSeq(values) = SumSeq(contribution)
        /\ chart.total = SumSeq(contribution)
        /\ (0 <= p /\ p <= 100) =>
              \A i \in DOMAIN keys :
                  IsMax(i) => \E b \in DOMAIN buckets :
                                  /\ buckets[b].label = keys[i]
                                  /\ buckets[b].value >= contribution[i]

\* C26: proportional bucketing preserves the total: for the chart of the
\* project rollup and the chart of the user rollup and every percentage the
\* sum of the bucket values is the sum of the overall contributions of all
\* groups (the rows) of the rollup table, and for
\* 0 <= p <= 100 the group with the maximum contribution is not relabelled
\* into 'Other'.
C26_BucketingPreservesTotal ==
    lpc = "done" =>
        /\ TotalPreserved(project_chart, projects_df, "Project_Key", -1)
        /\ TotalPreserved(user_chart, users_df, "User", percentage)
        /\ user_chart.total = SumSeq(Column(users_df.rows, "Overall_Contribution"))
        /\ project_chart.total = SumSeq(Column(projects_df.rows, "Overall_Contribution"))

\* C26 witness: at p = 100 the chart of the contributions 100, 40, 5 and 2
\* keeps the label of the maximum and puts the 47 others into 'Other'
C26_Witness ==
    /\ lpc = "done"
    /\ percentage = 100
    /\ Len(users_df.rows) = 4
    /\ Len(user_chart.value_counts) = 2
    /\ user_chart.value_counts[1] = [label |-> <<"a">>, value |-> 100]
    /\ user_chart.value_counts[2] = [label |-> <<"Other">>, value |-> 47]
    /\ user_chart.total = 147

----------------------------------------------------------------------------
(* Claims about the rollups of a run of generate_report, checked under      *)
(* SpecReport                                                               *)

\* C15: the user rollup has exactly one row per configured user with non-zero
\* overall contribution: no row stands for two different user identifiers and
\* no user identifier has two rows.
C15_OneRowPerUser ==
    users_df # NoValue =>
        LET records == collected.items
            contributing == {emitted[i][3] : i \in {j \in DOMAIN records :
                                                      records[j].Overall_Contribution > 0}}
            Names(u) == {records[i].User : i \in {j \in DOMAIN records : emitted[j][3] = u}}
            rows == users_df.rows
        IN  /\ Len(rows) = Cardinality(contributing)
            /\ \A u \in contributing :
                  Cardinality({j \in DOMAIN rows : rows[j].User \in Names(u)}) = 1
            /\ \A j \in DOMAIN rows :
                  Cardinality({u \in contributing : rows[j].User \in Names(u)}) = 1

\* A tuple of a listing as the report shows it: every missing value reads nan
Shown(t) == [i \in DOMAIN t |-> IF IsNaN(t[i]) THEN <<"nan">> ELSE t[i]]

C19_OneProjectPerDiscoveredRepo ==
    conf.projects = <<>> =>
        LET d == project_to_repo_dict
            found == UNION Range(discovered)
        IN  /\ \A i \in DOMAIN d : d[i].repos = <<d[i].key>>
            /\ \A i, j \in DOMAIN d : i < j => d[i].key # d[j].key
            /\ gpc \in {"discover", "validate"} =>
                  /\ {d[i].key : i \in DOMAIN d} = found
                  /\ Len(d) = Cardinality(found)
            /\ gpc = "discover" => Len(discovered) = di - 1
            /\ gpc = "validate" => Len(discovered) = Len(users)

\* C19 witness: the searches of two users both found o/r1, one of them also
\* o/r2, and there are two projects, one of them o/r1
C19_Witness ==
    /\ conf.projects = <<>>
    /\ gpc = "validate"
    /\ Len(discovered) = 2
    /\ Repo1 \in discovered[1] \cap discovered[2]
    /\ Len(project_to_repo_dict) = 2
    /\ \E i \in DOMAIN project_to_repo_dict :
          project_to_repo_dict[i] = [key |-> Repo1, repos |-> <<Repo1>>]

\* C20: end to end, for start_date 2024-01-01, the one user a and the project
\* P1 -> [o/r1], when the backend answers 3 commits and a list of open pull
\* requests of which 1 matches the user, the filtered table is the one record
\* with 3 commits, 1 pull request and overall 4, the user rollup is one row
\* for the user with overall 4, and the project rollup is one row for P1 with
\* overall 4.
C20_EndToEnd ==
    ( /\ conf = [start_date |-> StartDate, users |-> <<UserA>>,
                 projects |-> <<[key |-> <<"P1">>, repos |-> <<Repo1>>]>>]
      /\ users_df # NoValue
      /\ Len(commits) = 3
      /\ Cardinality(MatchingPullRequests(prs, UserA, StartDate)) = 1 ) =>
        /\ Len(filtered_df.rows) = 1
        /\ filtered_df.rows[1].Project_Key = <<"P1">>
        /\ filtered_df.rows[1].Repository = Repo1
        /\ filtered_df.rows[1].Commits = 3
        /\ filtered_df.rows[1].Pull_Requests_Open = 1
        /\ filtered_df.rows[1].Overall_Contribution = 4
        /\ Len(users_df.rows) = 1
        /\ users_df.rows[1].User = filtered_df.rows[1].User
        /\ users_df.rows[1].User \in {UserA, <<"N">>}
        /\ users_df.rows[1].Overall_Contribution = 4
        /\ Len(projects_df.rows) = 1
        /\ projects_df.rows[1].Project_Key = <<"P1">>
        /\ projects_df.rows[1].Overall_Contribution = 4

\* C20 witness: that run has written its report and its dump
C20_Witness ==
    /\ conf = [start_date |-> StartDate, users |-> <<UserA>>,
               projects |-> <<[key |-> <<"P1">>, repos |-> <<Repo1>>]>>]
    /\ gpc = "done" /\ lpc = "idle"
    /\ Len(commits) = 3
    /\ Len(prs) = 3
    /\ Cardinality(MatchingPullRequests(prs, UserA, StartDate)) = 1
    /\ users_df.rows[1].Overall_Contribution = 4

----------------------------------------------------------------------------
(* Claims about the retry budget and the back-off of get_all_pages, checked
   under Spec *)

\* Position of the last successful response in the log, 0 when there is none:
\* the attempts after it are the attempts of the page the fetch is working on
LastOk ==
    LET oks == {i \in DOMAIN log : log[i].ev = "ok"}
    IN  IF oks = {} THEN 0 ELSE CHOOSE i \in oks : \A j \in oks : j <= i

\* Number of failed attempts among the log positions lo + 1 .. hi
FailedBetween(lo, hi) ==
    Cardinality({i \in DOMAIN log : lo < i /\ i <= hi /\ log[i].ev = "err"})

\* C22: every page has its own full retry budget: whatever was requested for
\* the earlier pages of the fetch, the failure of a page is raised only after
\* max_retries failed attempts of that page.
C22_RetryBudgetPerPage ==
    fpc = "raised" => FailedBetween(LastOk, Len(log)) = MaxRetries

\* C22 in page-number mode and without pagination
C22_ListBudgetPerPage ==
    url # SearchUrl => C22_RetryBudgetPerPage

\* Position of the last successful response before log position i
LastOkBefore(i) ==
    LET oks == {j \in 1 .. i - 1 : log[j].ev = "ok"}
    IN  IF oks = {} THEN 0 ELSE CHOOSE j \in oks : \A k \in oks : k <= j

\* The log positions of the failed attempts
ErrPositions == {i \in DOMAIN log : log[i].ev = "err"}

\* 0-based number of the failed attempt at log position i among the attempts
\* of its page
FailedAttemptNumber(i) == FailedBetween(LastOkBefore(i), i - 1)

\* C23: after the failed attempt number a (0-based, a < max_retries - 1) of a
\* page the fetcher sleeps backoff_factor * 2^a (in tenths of a second: 3,
\* then 6) before the next attempt, and after the final failed attempt it
\* raises without any sleep.
C23_BackoffPerPage ==
    \A i \in ErrPositions :
        LET a == FailedAttemptNumber(i)
        IN  IF a < MaxRetries - 1
            THEN /\ i < Len(log)
                 /\ log[i + 1].ev = "backoff"
                 /\ log[i + 1].arg = BackoffTenths * Pow2(a)
            ELSE /\ i = Len(log)
                 /\ fpc = "raised"

\* C23 in page-number mode and without pagination
C23_ListBackoffPerPage ==
    url # SearchUrl => C23_BackoffPerPage

\* The pages of the remote collection that carry records and were answered
RecordCarryingPages ==
    {p \in LogPages :
        /\ EvCount("ok", p) > 0
        /\ PageItems(source, [page |-> p, per_page |-> PerPage]) # <<>>}

\* C25: the top-contributor fetch retrieves at most 500 contributors with page
\* size 100 from at most 5 record-carrying pages, so that every rank, which is
\* the position of the contributor in the answer counted from 1, is between
\* 1 and 500.
C25_TopContributorsCapped ==
    url = "contributors" =>
        /\ params.per_page = PerPage
        /\ Cardinality(RecordCarryingPages) * PerPage <= ContributorCap
        /\ fpc = "ret" =>
              /\ Len(ret.items) <= ContributorCap
              /\ \A rank \in DOMAIN ret.items : 1 <= rank /\ rank <= ContributorCap

\* C25 for a repository with no more contributors than the announced number
C25_SmallRepositoryCapped ==
    url = "contributors" /\ Len(source.items) <= ContributorCap =>
        C25_TopContributorsCapped

----------------------------------------------------------------------------
(* Claims about generate_report_with_local_data, checked under SpecLocal *)

\* C21: generate_report_with_local_data skips the live collection: from start
\* to finish it issues no HTTP request, starts no fetch and collects no
\* record, and its filtered table and its rollups are computed from the table
\* of the file alone.
C21_LocalPathOffline ==
    /\ ~httpIssued
    /\ fpc = "idle" /\ log = <<>>
    /\ gpc = "idle" /\ cpc = "idle"
    /\ github_data = <<>> /\ collected = NoValue
    /\ lpc # "idle" => github_data_df = read_csv(dump)
    /\ lpc = "done" =>
          /\ filtered_df = filter_contributions(read_csv(dump))
          /\ <<projects_df, users_df>> \in
                 group_contributions(filter_contributions(read_csv(dump)))
          /\ reportWritten /\ ~dumpWritten

\* C21 witness: the report of a file with a contributing record is written and
\* no request was issued
C21_Witness ==
    /\ lpc = "done"
    /\ reportWritten
    /\ Len(filtered_df.rows) > 0
    /\ Len(users_df.rows) > 0
    /\ ~httpIssued

----------------------------------------------------------------------------
(* Claims about the order of the steps of process_github_data, checked under
   SpecReport *)

\* A step that appends a record to github_data
RecordAppended == Len(github_data') = Len(github_data) + 1

\* The pull requests of the list that belong to the bucket of the login
BucketOf(pr_list, login, since) ==
    LET Mine(pr) == /\ Strip(Lower(pr.user.login)) = login
                    /\ DayNumber(pr.created_at) >= DayNumber(since)
    IN  SelectSeq(pr_list, Mine)

\* While the maps of a repository are built no record of it exists, and when
\* its records are emitted the PR bucket map holds every pull request of the
\* whole answer
MapsBuiltBeforeRecords ==
    /\ gpc = "collect" /\ cpc \in {"contributors", "pulls"} =>
          Len(github_data) = (ri - 1) * Len(users)
    /\ gpc = "collect" /\ cpc = "commits" =>
          /\ Len(github_data) = (ri - 1) * Len(users) + ui - 1
          /\ \A l \in DOMAIN user_prs_dict :
                user_prs_dict[l] = BucketOf(prs, l, start_date)
          /\ \A i \in DOMAIN prs :
                BucketOf(prs, Strip(Lower(prs[i].user.login)), start_date) # <<>> =>
                    Strip(Lower(prs[i].user.login)) \in DOMAIN user_prs_dict

\* The emission of a record leaves the rank map, the answer of the pulls fetch
\* and every existing bucket alone; a bucket it adds is empty
BucketsKept ==
    RecordAppended =>
        /\ top_contributors_in_users' = top_contributors_in_users
        /\ prs' = prs
        /\ \A l \in DOMAIN user_prs_dict :
              l \in DOMAIN user_prs_dict' /\ user_prs_dict'[l] = user_prs_dict[l]
        /\ \A l \in DOMAIN user_prs_dict' \ DOMAIN user_prs_dict :
              user_prs_dict'[l] = <<>>

\* C24 (as stated): the rank map and the PR bucket map of a repository are
\* not modified while the records of the repository are emitted.
C24_MapsNotModified ==
    [][RecordAppended =>
         /\ top_contributors_in_users' = top_contributors_in_users
         /\ user_prs_dict' = user_prs_dict]_vars

\* C24 (amended): for each repository the rank map and the PR bucket map are
\* completely built before the first record of the repository is appended;
\* while its records are emitted the rank map is not modified and no existing
\* bucket of the PR map changes: the only change is the empty bucket that the
\* lookup of a user without a bucket inserts.
C24_MapsBuiltBeforeRecords ==
    []MapsBuiltBeforeRecords /\ [][BucketsKept]_vars

\* C24 witness: the first record of a repository is emitted after a pulls
\* answer of three pull requests; the rank map ranks a configured user and the
\* bucket of the user of the record holds one pull request
C24_Witness ==
    /\ gpc = "collect" /\ cpc = "commits" /\ ui = 2
    /\ Len(github_data) = (ri - 1) * Len(users) + 1
    /\ DOMAIN top_contributors_in_users # {}
    /\ Len(prs) = 3
    /\ users[1] \in DOMAIN user_prs_dict
    /\ Len(user_prs_dict[users[1]]) = 1
    /\ github_data[Len(github_data)].Pull_Requests_Open = 1

====
